---- MODULE Spec2Model ----
(***************************************************************************)
(* Directory synchronisation of the document add-ons.                      *)
(*                                                                         *)
(*   Incremental : rsync_directory / upload_files of src/doc-viewer/main.py *)
(*   ReplaceAll  : upload_files of src/ingress-fastapi/main.py             *)
(*   Listing     : get_folder / is_folder_empty of src/doc-viewer/main.py  *)
(*                                                                         *)
(* The filesystem is a function from absolute paths (sequences of names)   *)
(* to nodes; the staged upload (the temporary source directory) is a       *)
(* second such function with paths relative to the temporary directory.    *)
(***************************************************************************)
EXTENDS Integers, Sequences, FiniteSets, TLC

\* ------------------------------------------------------------------ bounds
MaxSrcFiles == 2    \* files in the staged source tree
MaxTgtFiles == 2    \* files in the document root before the request
MaxFaults   == 1    \* I/O calls (copy2, remove, rmdir) that fail per behaviour
MaxRuns     == 2    \* successive Incremental uploads of the same source

\* ------------------------------------------------------- names and patterns
\* A name or pattern as the sequence of its characters (fnmatch works on
\* characters; TLA+ strings are atomic).
Chars(s) ==
    CASE s = "a"           -> <<"a">>
      [] s = "b"           -> <<"b">>
      [] s = "d"           -> <<"d">>
      [] s = "docs"        -> <<"d", "o", "c", "s">>
      [] s = "config"      -> <<"c", "o", "n", "f", "i", "g">>
      [] s = "out"         -> <<"o", "u", "t">>
      [] s = ".DS_Store"   -> <<".", "D", "S", "_", "S", "t", "o", "r", "e">>
      [] s = ".git"        -> <<".", "g", "i", "t">>
      [] s = "__pycache__" -> <<"_", "_", "p", "y", "c", "a", "c", "h", "e", "_", "_">>
      [] s = ".venv"       -> <<".", "v", "e", "n", "v">>
      [] s = ".*cache"     -> <<".", "*", "c", "a", "c", "h", "e">>
      [] s = "$RECYCLE.BIN" -> <<"$", "R", "E", "C", "Y", "C", "L", "E", ".", "B", "I", "N">>

\* Code point of a character (for sorted()).
Code(c) ==
    CASE c = "$" -> 36 [] c = "." -> 46 [] c = "D" -> 68 [] c = "S" -> 83
      [] c = "_" -> 95 [] c = "a" -> 97 [] c = "b" -> 98 [] c = "c" -> 99
      [] c = "d" -> 100 [] c = "e" -> 101 [] c = "f" -> 102 [] c = "g" -> 103
      [] c = "i" -> 105 [] c = "n" -> 110 [] c = "o" -> 111 [] c = "r" -> 114
      [] c = "s" -> 115 [] c = "t" -> 116 [] c = "u" -> 117

EXCLUDE_FILES == {".DS_Store"}
EXCLUDE_FOLDERS == {"__pycache__", ".venv", ".git", ".*cache", "$RECYCLE.BIN"}

\* Names that occur in the modelled trees.
Names == {"a", "b", "d", ".DS_Store", ".git", "docs", "config", "out"}

\* fnmatch.fnmatchcase on character sequences: "*" any run, "?" any one
\* character, every other character itself.
RECURSIVE Glob(_, _)
Glob(s, p) ==
    IF p = <<>> THEN s = <<>>
    ELSE IF Head(p) = "*"
         THEN Glob(s, Tail(p)) \/ (s # <<>> /\ Glob(Tail(s), p))
         ELSE /\ s # <<>>
              /\ (Head(p) = "?" \/ Head(p) = Head(s))
              /\ Glob(Tail(s), Tail(p))

fnmatch(name, pat) == Glob(Chars(name), Chars(pat))

ExcludedFileNames == {n \in Names : \E p \in EXCLUDE_FILES : fnmatch(n, p)}
ExcludedFolderNames == {n \in Names : \E p \in EXCLUDE_FOLDERS : fnmatch(n, p)}

\* any(fnmatch(file, p) for p in EXCLUDE_FILES)
IsExcludedFile(name) == name \in ExcludedFileNames
\* any(fnmatch(d, p) for p in EXCLUDE_FOLDERS)
IsExcludedFolder(name) == name \in ExcludedFolderNames

\* ------------------------------------------------------------------- paths
DOCS_ROOT == <<"config", "docs">>
Outside == <<"config", "out">>

Last(p) == p[Len(p)]
Parent(p) == SubSeq(p, 1, Len(p) - 1)
IsPrefix(p, q) == Len(p) <= Len(q) /\ SubSeq(q, 1, Len(p)) = p
IsProperPrefix(p, q) == Len(p) < Len(q) /\ SubSeq(q, 1, Len(p)) = p
RelTo(p, top) == SubSeq(p, Len(top) + 1, Len(p))

\* A target_path argument is a sequence of components; a leading "/" marks an
\* absolute path.  os.path.join(DOCS_ROOT, arg): an absolute second argument
\* discards the first.
PathJoin(root, a) ==
    IF a # <<>> /\ Head(a) = "/" THEN Tail(a) ELSE root \o a

\* The directory a raw path denotes: "." stays, ".." goes to the parent.
RECURSIVE ResolveFrom(_, _)
ResolveFrom(acc, raw) ==
    IF raw = <<>> THEN acc
    ELSE IF Head(raw) = "." THEN ResolveFrom(acc, Tail(raw))
    ELSE IF Head(raw) = ".."
         THEN ResolveFrom(IF acc = <<>> THEN acc ELSE Parent(acc), Tail(raw))
         ELSE ResolveFrom(Append(acc, Head(raw)), Tail(raw))

Resolve(raw) == ResolveFrom(<<>>, raw)

\* target_path = os.path.join(DOCS_ROOT, target_dir) if target_dir else DOCS_ROOT
RawTarget(a) == IF a # <<>> THEN PathJoin(DOCS_ROOT, a) ELSE DOCS_ROOT
TargetOf(a) == Resolve(RawTarget(a))

\* -------------------------------------------------------------- filesystem
DirNode == [kind |-> "dir", size |-> 0, mtime |-> 0]
FileNode(sz, mt) == [kind |-> "file", size |-> sz, mtime |-> mt]

Exists(f, p) == p \in DOMAIN f
IsDir(f, p) == p \in DOMAIN f /\ f[p].kind = "dir"
IsFile(f, p) == p \in DOMAIN f /\ f[p].kind = "file"
Children(f, p) == {q \in DOMAIN f : Len(q) = Len(p) + 1 /\ IsPrefix(p, q)}
Below(f, p) == {q \in DOMAIN f : IsProperPrefix(p, q)}
Put(f, p, node) == [q \in DOMAIN f \cup {p} |-> IF q = p THEN node ELSE f[q]]
Remove(f, S) == [q \in DOMAIN f \ S |-> f[q]]
Prefixes(p) == {SubSeq(p, 1, n) : n \in 0..Len(p)}

\* os.makedirs(p, exist_ok=True): creates the missing directories of p; raises
\* (FileExistsError / NotADirectoryError) when a component is a file, before
\* anything is created.
MakeDirs(f, p) ==
    IF \E q \in Prefixes(p) : IsFile(f, q)
    THEN [ok |-> FALSE, fs |-> f]
    ELSE [ok |-> TRUE,
          fs |-> [q \in DOMAIN f \cup Prefixes(p) |->
                     IF q \in DOMAIN f THEN f[q] ELSE DirNode]]

\* The files os.walk(top) yields under the exclusion filter of the sync
\* passes, as paths relative to top: directories whose name is excluded are
\* pruned from the walk (dirs[:] = ...), files whose name is excluded are
\* skipped.  The name of top itself is not tested.
WalkFiles(f, top) ==
    {RelTo(q, top) : q \in
        {q \in Below(f, top) :
            /\ f[q].kind = "file"
            /\ ~IsExcludedFile(Last(q))
            /\ \A n \in (Len(top) + 1)..(Len(q) - 1) : ~IsExcludedFolder(q[n])}}

\* Every file below top (shutil.copytree applies no filter).
AllFiles(f, top) ==
    {RelTo(q, top) : q \in {q \in Below(f, top) : f[q].kind = "file"}}

\* os.walk order: the files of a directory are yielded before the walk
\* descends into its subdirectories; the order within a directory is that of
\* the directory scan (any).
WalkNext(pending, r) ==
    \A o \in pending : ~IsProperPrefix(Parent(o), Parent(r))

\* ------------------------------------------------------------------ inputs
\* Files an upload may stage (relative to the temporary directory) ...
SrcCand == {<<"a">>, <<"d", "a">>, <<".DS_Store">>, <<".git", "a">>, <<"d">>}
SrcAttr(p) == FileNode(Len(p), 2)

\* ... and files the document root may hold before the request.
TgtCand == {<<"a">>, <<"b">>, <<"d", "a">>, <<"d", "d", "b">>, <<".DS_Store">>,
            <<".git", "a">>, <<"d">>, <<"a", "a">>}
TgtAttrs(p) ==
    IF p = <<"a">>
    THEN {FileNode(1, 1), FileNode(1, 2), FileNode(1, 3), FileNode(2, 3)}
    ELSE {FileNode(1, 1)}

\* No path is both a file and a directory.
Consistent(S) == \A p, q \in S : p # q => ~IsPrefix(p, q)

\* The tree that holds the files of att (a function from relative paths to
\* file nodes) below top, added to base.
AddTree(base, top, att) ==
    LET files == {top \o r : r \in DOMAIN att}
        dirs == UNION {Prefixes(Parent(q)) : q \in files}
    IN [q \in DOMAIN base \cup files \cup dirs |->
            IF q \in files THEN att[RelTo(q, top)]
            ELSE IF q \in DOMAIN base THEN base[q] ELSE DirNode]

EmptyFs == [q \in {<<>>} |-> DirNode]
BaseFs == AddTree(MakeDirs(EmptyFs, DOCS_ROOT).fs, Outside,
                  [r \in {<<"b">>} |-> FileNode(1, 1)])

SourceTrees ==
    {AddTree(EmptyFs, <<>>, [r \in S |-> SrcAttr(r)]) :
        S \in {S \in SUBSET SrcCand :
                  Cardinality(S) \in 1..MaxSrcFiles /\ Consistent(S)}}

TargetAtts ==
    UNION {{att \in [S -> UNION {TgtAttrs(p) : p \in S}] :
                \A p \in S : att[p] \in TgtAttrs(p)} :
           S \in {S \in SUBSET TgtCand :
                     Cardinality(S) <= MaxTgtFiles /\ Consistent(S)}}

TargetTrees == {AddTree(BaseFs, DOCS_ROOT, att) : att \in TargetAtts}

\* ... and directories without entries that it may hold as well.
EmptyDirCand == {<<".git", "d">>, <<"d", "d">>}
TargetTreesWithDir ==
    {MakeDirs(t, DOCS_ROOT \o e).fs :
        t \in {t \in TargetTrees : \A e \in EmptyDirCand :
                   MakeDirs(t, DOCS_ROOT \o e).ok},
        e \in EmptyDirCand}

\* target_path form values
TargetArgs == {<<>>, <<".">>, <<"d">>, <<"..", "out">>, <<"/", "config", "docs">>}

NoOperations == [copied |-> <<>>, deleted |-> <<>>, errors |-> <<>>]
NoListing == [status |-> 0, path |-> <<>>, folders |-> <<>>, files |-> <<>>]

\* A second upload request of the service for the same target path: its
\* handler's position, its staged files and the locals of its sync call.
Request(p, s, t, sf, ops, out) ==
    [pc |-> p, src |-> s, todo |-> t, source_files |-> sf,
     operations |-> ops, outcome |-> out]
NoRequest == Request("none", EmptyFs, {}, {}, NoOperations, "none")
OtherUpload == AddTree(EmptyFs, <<>>, [r \in {<<"b">>} |-> FileNode(1, 2)])
OtherRequest == Request("idle", OtherUpload, {}, {}, NoOperations, "none")

\* ------------------------------------------------------------------- state
VARIABLES
    fs,            \* the filesystem
    src,           \* the staged source tree (temp_dir)
    srcReadable,   \* whether temp_dir can be scanned
    policy,        \* "Incremental" (doc-viewer) or "ReplaceAll" (ingress-fastapi)
    arg,           \* the target_path form value
    pc,            \* position of the request handler
    run,           \* number of the current upload
    todo,          \* what the current walk has still to yield
    source_files,  \* rsync_directory: source_files
    operations,    \* rsync_directory: operations (copytree: its errors list)
    outcome,       \* "none", "ok" (HTTP 200), "raised" (HTTPException 400)
    prevOps,       \* the report of the previous upload
    listing,       \* the last get_folder response
    faults,        \* failed I/O calls so far
    fs0,           \* history: the filesystem when the current upload began
    rmtreeRan,     \* history: shutil.rmtree was called by the current upload
    rmdirFailed,   \* history: directories whose os.rmdir failed (ignored)
    other          \* the other upload request in flight (suspended handler)

vars == <<fs, src, srcReadable, policy, arg, pc, run, todo, source_files,
          operations, outcome, prevOps, listing, faults, fs0, rmtreeRan,
          rmdirFailed, other>>

target_path == TargetOf(arg)

Init ==
    /\ fs \in TargetTrees \cup TargetTreesWithDir
    /\ src \in SourceTrees
    /\ srcReadable \in BOOLEAN
    /\ (~srcReadable => DOMAIN src = {<<>>, <<"a">>})
    /\ policy \in {"Incremental", "ReplaceAll"}
    /\ arg \in TargetArgs
    /\ (policy = "Incremental" => arg \in {<<>>, <<"d">>, <<"..", "out">>})
    /\ (fs \notin TargetTrees =>
            /\ policy = "Incremental" /\ arg = <<>> /\ srcReadable
            /\ DOMAIN src = {<<>>, <<"a">>})
    /\ pc = "idle"
    /\ run = 1
    /\ todo = {}
    /\ source_files = {}
    /\ operations = NoOperations
    /\ outcome = "none"
    /\ prevOps = NoOperations
    /\ listing = NoListing
    /\ faults = 0
    /\ fs0 = fs
    /\ rmtreeRan = FALSE
    /\ rmdirFailed = {}
    /\ other \in {NoRequest, OtherRequest}
    /\ (other # NoRequest =>
            /\ policy = "Incremental" /\ arg = <<>> /\ srcReadable
            /\ DOMAIN src = {<<>>, <<"a">>}
            /\ fs \in TargetTrees)

\* ------------------------------------------------- Incremental (doc-viewer)
\* The message of an errors entry: its prefix and the relative path (or the
\* failing path of a general error).
ErrorEntry(kind, r) == <<kind, r>>

\* Lines 314-323: copy unless the target exists with the same size and a
\* modification time not older than the source's.
\* (mutant) an equal modification time counts as newer.
ShouldCopy_NotStrict(f, snode, tfp) ==
    IF Exists(f, tfp)
    THEN ~(snode.mtime < f[tfp].mtime /\ snode.size = f[tfp].size)
    ELSE TRUE

ShouldCopy(f, snode, tfp) ==
    IF Exists(f, tfp)
    THEN ~(snode.mtime <= f[tfp].mtime /\ snode.size = f[tfp].size)
    ELSE TRUE

\* The stat of a directory in the way of the file is not modelled: either
\* answer is possible.
ShouldCopyOutcomes(f, snode, tfp) ==
    IF IsDir(f, tfp) THEN BOOLEAN ELSE {ShouldCopy(f, snode, tfp)}

\* shutil.copy2(src, dst): into dst/basename when dst is a directory; the
\* copy carries the source's size and modification time.  Opening a
\* directory for writing fails.
Copy2Dst(f, dst, base) == IF IsDir(f, dst) THEN Append(dst, base) ELSE dst

\* (mutant) the copy is created but the content is not written.
Copy2_Empty(f, snode, dst, base) ==
    LET d == Copy2Dst(f, dst, base)
    IN IF IsDir(f, d)
       THEN [ok |-> FALSE, fs |-> f]
       ELSE [ok |-> TRUE, fs |-> Put(f, d, FileNode(0, snode.mtime))]

Copy2(f, snode, dst, base) ==
    LET d == Copy2Dst(f, dst, base)
    IN IF IsDir(f, d)
       THEN [ok |-> FALSE, fs |-> f]
       ELSE [ok |-> TRUE, fs |-> Put(f, d, FileNode(snode.size, snode.mtime))]

\* A copy2 that fails on an I/O error leaves the destination as it was, or
\* truncated / partly written with a fresh modification time.
Copy2Faults(f, dst, base) ==
    LET d == Copy2Dst(f, dst, base)
    IN {[ok |-> FALSE, fs |-> f]} \cup
       (IF IsDir(f, d) THEN {}
        ELSE {[ok |-> FALSE, fs |-> Put(f, d, FileNode(0, 4))]})

Copy2Outcomes(f, snode, dst, base) ==
    {Copy2(f, snode, dst, base)} \cup
    (IF faults < MaxFaults THEN Copy2Faults(f, dst, base) ELSE {})

\* Lines 282-287 and the start of the walk at line 292.  os.makedirs at line
\* 285 is outside the try: its failure reaches upload_files, which answers
\* 400.  os.walk ignores scan errors: an unreadable source yields nothing.
RsyncStart ==
    /\ pc = "idle" /\ policy = "Incremental"
    /\ LET md == MakeDirs(fs, target_path)
       IN IF md.ok
          THEN /\ fs' = md.fs
               /\ pc' = "copy"
               /\ outcome' = "none"
               /\ todo' = IF srcReadable THEN WalkFiles(src, <<>>) ELSE {}
          ELSE /\ fs' = fs
               /\ pc' = "done"
               /\ outcome' = "raised"
               /\ todo' = {}
    /\ operations' = NoOperations
    /\ source_files' = {}
    /\ fs0' = fs
    /\ rmtreeRan' = FALSE
    /\ rmdirFailed' = {}
    /\ UNCHANGED <<src, srcReadable, policy, arg, run, prevOps, listing, faults,
            other>>

\* Lines 298-332 for one file of the source walk.
RsyncCopyFile(r) ==
    /\ pc = "copy" /\ r \in todo /\ WalkNext(todo, r)
    /\ source_files' = source_files \cup {r}
    /\ LET tfp == target_path \o r
           md == MakeDirs(fs, Parent(tfp))
       IN IF ~md.ok
          THEN \* line 311 raises: caught at line 369, the report is returned
               /\ operations' = [operations EXCEPT
                      !.errors = Append(@, ErrorEntry("General error", r))]
               /\ fs' = fs
               /\ todo' = {}
               /\ pc' = "done"
               /\ outcome' = "ok"
               /\ faults' = faults
          ELSE \E sc \in ShouldCopyOutcomes(md.fs, src[r], tfp) :
               /\ todo' = todo \ {r}
               /\ UNCHANGED <<pc, outcome>>
               /\ IF ~sc
                  THEN /\ fs' = md.fs
                       /\ UNCHANGED <<operations, faults>>
                  ELSE \E c \in Copy2Outcomes(md.fs, src[r], tfp, Last(r)) :
                       /\ fs' = c.fs
                       /\ faults' = IF c \in Copy2Faults(md.fs, tfp, Last(r))
                                    THEN faults + 1 ELSE faults
                       /\ operations' =
                            IF c.ok
                            THEN [operations EXCEPT !.copied = Append(@, r)]
                            ELSE [operations EXCEPT !.errors =
                                     Append(@, ErrorEntry("Failed to copy", r))]
    /\ UNCHANGED <<src, srcReadable, policy, arg, run, prevOps, listing, fs0,
                   rmtreeRan, rmdirFailed, other>>

\* rel_path not in source_files (line 349)
\* (mutant) the membership test is inverted.
ShouldDelete_Inverted(r, sf) == r \in sf

ShouldDelete(r, sf) == r \notin sf

\* Line 335-336: the source walk is exhausted, the target walk begins.
RsyncBeginDelete ==
    /\ pc = "copy" /\ todo = {}
    /\ pc' = "delete"
    /\ todo' = IF Exists(fs, target_path) THEN WalkFiles(fs, target_path) ELSE {}
    /\ UNCHANGED <<fs, src, srcReadable, policy, arg, run, source_files,
                   operations, outcome, prevOps, listing, faults, fs0,
                   rmtreeRan, rmdirFailed, other>>

\* Lines 342-357 for one file of the target walk.
RsyncDeleteFile(r) ==
    /\ pc = "delete" /\ r \in todo /\ WalkNext(todo, r)
    /\ todo' = todo \ {r}
    /\ IF ShouldDelete(r, source_files)
       THEN \/ /\ fs' = Remove(fs, {target_path \o r})
               /\ operations' = [operations EXCEPT !.deleted = Append(@, r)]
               /\ faults' = faults
            \/ /\ faults < MaxFaults
               /\ faults' = faults + 1
               /\ fs' = fs
               /\ operations' = [operations EXCEPT !.errors =
                      Append(@, ErrorEntry("Failed to delete", r))]
       ELSE UNCHANGED <<fs, operations, faults>>
    /\ UNCHANGED <<src, srcReadable, policy, arg, pc, run, source_files,
                   outcome, prevOps, listing, fs0, rmtreeRan, rmdirFailed,
                   other>>

\* Line 360: the bottom-up walk of the target begins (no exclusion filter).
RsyncBeginPrune ==
    /\ pc = "delete" /\ todo = {}
    /\ pc' = "prune"
    /\ todo' = {q \in Below(fs, target_path) : fs[q].kind = "dir"}
    /\ UNCHANGED <<fs, src, srcReadable, policy, arg, run, source_files,
                   operations, outcome, prevOps, listing, faults, fs0,
                   rmtreeRan, rmdirFailed, other>>

\* Line 364: not os.listdir(dir_path)
\* (mutant) the emptiness test is inverted.
PruneTest_Inverted(f, d) == IsDir(f, d) /\ Children(f, d) # {}

PruneTest(f, d) == IsDir(f, d) /\ Children(f, d) = {}

\* os.rmdir(d): fails (OSError) on a directory that is not empty.
Rmdir(f, d) ==
    IF IsDir(f, d) /\ Children(f, d) = {}
    THEN [ok |-> TRUE, fs |-> Remove(f, {d})]
    ELSE [ok |-> FALSE, fs |-> f]

\* Lines 361-367 for one directory: a directory is tested after every
\* directory below it; an OSError of listdir or rmdir is ignored.
RsyncPruneDir(d) ==
    /\ pc = "prune" /\ d \in todo
    /\ \A o \in todo : ~IsProperPrefix(d, o)
    /\ todo' = todo \ {d}
    /\ IF PruneTest(fs, d)
       THEN \/ /\ fs' = Rmdir(fs, d).fs
               /\ UNCHANGED <<faults, rmdirFailed>>
            \/ /\ faults < MaxFaults
               /\ faults' = faults + 1
               /\ rmdirFailed' = rmdirFailed \cup {d}
               /\ fs' = fs
       ELSE UNCHANGED <<fs, faults, rmdirFailed>>
    /\ UNCHANGED <<src, srcReadable, policy, arg, pc, run, source_files,
                   operations, outcome, prevOps, listing, fs0, rmtreeRan,
                   other>>

\* Line 372 and upload_files lines 442-448.
RsyncReturn ==
    /\ pc = "prune" /\ todo = {}
    /\ pc' = "done"
    /\ outcome' = "ok"
    /\ UNCHANGED <<fs, src, srcReadable, policy, arg, run, todo, source_files,
                   operations, prevOps, listing, faults, fs0, rmtreeRan,
                   rmdirFailed, other>>

\* The same files are uploaded again to the same target.
Resync ==
    /\ pc = "done" /\ policy = "Incremental" /\ outcome = "ok"
    /\ run < MaxRuns
    /\ run' = run + 1
    /\ prevOps' = operations
    /\ pc' = "idle"
    /\ UNCHANGED <<fs, src, srcReadable, policy, arg, todo, source_files,
                   operations, outcome, listing, faults, fs0, rmtreeRan,
                   rmdirFailed, other>>

\* ----------------------------------------------- ReplaceAll (ingress-fastapi)
\* Lines 419-421: os.path.exists(target_full_path) and target_path
\* (mutant) the test of the argument is missing.
RmtreeGuard_NoArgTest(f, a) == Exists(f, TargetOf(a))

RmtreeGuard(f, a) == Exists(f, TargetOf(a)) /\ a # <<>>

\* shutil.rmtree(raw): everything below the directory goes, then the final
\* os.rmdir(raw) removes the directory itself; rmdir of a path that ends in
\* "." or ".." fails, and so does rmtree of a file.
Rmtree(f, raw) ==
    LET t == Resolve(raw)
    IN IF ~IsDir(f, t)
       THEN [ok |-> FALSE, fs |-> f]
       ELSE IF Last(raw) \in {".", ".."}
            THEN [ok |-> FALSE, fs |-> Remove(f, Below(f, t))]
            ELSE [ok |-> TRUE, fs |-> Remove(f, Below(f, t) \cup {t})]

\* Lines 416-422.
UploadRmtree ==
    /\ pc = "idle" /\ policy = "ReplaceAll"
    /\ IF RmtreeGuard(fs, arg)
       THEN LET rm == Rmtree(fs, RawTarget(arg))
            IN /\ fs' = rm.fs
               /\ rmtreeRan' = TRUE
               /\ pc' = IF rm.ok THEN "copytree_enter" ELSE "done"
               /\ outcome' = IF rm.ok THEN "none" ELSE "raised"
       ELSE /\ fs' = fs
            /\ rmtreeRan' = FALSE
            /\ pc' = "copytree_enter"
            /\ outcome' = "none"
    /\ operations' = NoOperations
    /\ fs0' = fs
    /\ UNCHANGED <<src, srcReadable, policy, arg, run, todo, source_files,
                   prevOps, listing, faults, rmdirFailed, other>>

\* Line 423, entry of shutil.copytree: the source is scanned (an unreadable
\* source raises), then the destination directory is made.
UploadCopytreeEnter ==
    /\ pc = "copytree_enter"
    /\ LET md == MakeDirs(fs, target_path)
       IN IF srcReadable /\ md.ok
          THEN /\ fs' = md.fs
               /\ todo' = AllFiles(src, <<>>)
               /\ pc' = "copytree"
               /\ outcome' = "none"
          ELSE /\ fs' = fs
               /\ todo' = {}
               /\ pc' = "done"
               /\ outcome' = "raised"
    /\ UNCHANGED <<src, srcReadable, policy, arg, run, source_files,
                   operations, prevOps, listing, faults, fs0, rmtreeRan,
                   rmdirFailed, other>>

\* copytree for one file: the directories above it are made
\* (dirs_exist_ok=True), the file is copied with copy2; a failure is added
\* to copytree's errors and the copy goes on.
UploadCopyFile(r) ==
    /\ pc = "copytree" /\ r \in todo
    /\ todo' = todo \ {r}
    /\ LET tfp == target_path \o r
           md == MakeDirs(fs, Parent(tfp))
       IN IF ~md.ok
          THEN /\ fs' = fs
               /\ faults' = faults
               /\ operations' = [operations EXCEPT !.errors =
                      Append(@, ErrorEntry("copytree", r))]
          ELSE \E c \in Copy2Outcomes(md.fs, src[r], tfp, Last(r)) :
               /\ fs' = c.fs
               /\ faults' = IF c \in Copy2Faults(md.fs, tfp, Last(r))
                            THEN faults + 1 ELSE faults
               /\ operations' =
                    IF c.ok THEN operations
                    ELSE [operations EXCEPT !.errors =
                             Append(@, ErrorEntry("copytree", r))]
    /\ UNCHANGED <<src, srcReadable, policy, arg, pc, run, source_files,
                   outcome, prevOps, listing, fs0, rmtreeRan, rmdirFailed,
                   other>>

\* copytree raises shutil.Error when its errors list is not empty (the
\* handler answers 400, line 430); otherwise lines 425-427.
UploadReturn ==
    /\ pc = "copytree" /\ todo = {}
    /\ pc' = "done"
    /\ outcome' = IF operations.errors = <<>> THEN "ok" ELSE "raised"
    /\ UNCHANGED <<fs, src, srcReadable, policy, arg, run, todo, source_files,
                   operations, prevOps, listing, faults, fs0, rmtreeRan,
                   rmdirFailed, other>>

\* ------------------------------------------------------------------ listing
\* str comparison: by code points, a proper prefix first.
RECURSIVE SeqLess(_, _)
SeqLess(s, t) ==
    IF t = <<>> THEN FALSE
    ELSE IF s = <<>> THEN TRUE
    ELSE IF Code(Head(s)) # Code(Head(t)) THEN Code(Head(s)) < Code(Head(t))
    ELSE SeqLess(Tail(s), Tail(t))

NameLess(a, b) == SeqLess(Chars(a), Chars(b))

\* sorted(names)
RECURSIVE Sorted(_)
Sorted(S) ==
    IF S = {} THEN <<>>
    ELSE LET m == CHOOSE x \in S : \A y \in S \ {x} : NameLess(x, y)
         IN <<m>> \o Sorted(S \ {m})

\* is_folder_empty (lines 43-59): one level; a file or a directory that is
\* not excluded makes the folder non-empty.
is_folder_empty(f, p) ==
    \A q \in Children(f, p) :
        IF f[q].kind = "file" THEN IsExcludedFile(Last(q))
        ELSE IsExcludedFolder(Last(q))

\* get_folder (lines 208-231) for a path relative to the document root (the
\* working directory).
ListFolders(f, p) ==
    {Last(q) : q \in {q \in Children(f, p) :
        /\ f[q].kind = "dir"
        /\ ~IsExcludedFolder(Last(q))
        /\ ~is_folder_empty(f, q)}}

ListFiles(f, p) ==
    {Last(q) : q \in {q \in Children(f, p) :
        f[q].kind = "file" /\ ~IsExcludedFile(Last(q))}}

GetFolder(rel) ==
    /\ pc \in {"idle", "done"} /\ run = 1
    /\ LET p == Resolve(DOCS_ROOT \o rel)
       IN listing' =
            IF IsDir(fs, p)
            THEN [status |-> 200, path |-> p,
                  folders |-> Sorted(ListFolders(fs, p)),
                  files |-> Sorted(ListFiles(fs, p))]
            ELSE [status |-> 404, path |-> p, folders |-> <<>>,
                  files |-> <<>>]
    /\ pc' = "listed"
    /\ UNCHANGED <<fs, src, srcReadable, policy, arg, run, todo, source_files,
                   operations, outcome, prevOps, faults, fs0, rmtreeRan,
                   rmdirFailed, other>>

\* upload_files is a coroutine whose only await is the read of an uploaded
\* file while staging (line 436); rsync_directory is a plain function without
\* an await, so the event loop can run another handler only while this one
\* is staging or after it has returned.
\* (mutant) the handler can be suspended at any step of the sync.
AtAwait_AnyStep(p) == TRUE

AtAwait(p) == p \in {"idle", "done"}

\* The event loop suspends the running upload handler and runs the other one.
Switch ==
    /\ AtAwait(pc)
    /\ other.pc \notin {"none", "done"}
    /\ other' = Request(pc, src, todo, source_files, operations, outcome)
    /\ pc' = other.pc
    /\ src' = other.src
    /\ todo' = other.todo
    /\ source_files' = other.source_files
    /\ operations' = other.operations
    /\ outcome' = other.outcome
    /\ fs0' = fs
    /\ rmdirFailed' = {}
    /\ UNCHANGED <<fs, srcReadable, policy, arg, run, prevOps, listing, faults,
                   rmtreeRan>>

\* The paths a browse request may name: what exists below the document root.
ListArgs == {RelTo(q, DOCS_ROOT) : q \in {q \in DOMAIN fs : IsPrefix(DOCS_ROOT, q)}}

Next ==
    \/ RsyncStart
    \/ \E r \in todo : RsyncCopyFile(r)
    \/ RsyncBeginDelete
    \/ \E r \in todo : RsyncDeleteFile(r)
    \/ RsyncBeginPrune
    \/ \E d \in todo : RsyncPruneDir(d)
    \/ RsyncReturn
    \/ Resync
    \/ UploadRmtree
    \/ UploadCopytreeEnter
    \/ \E r \in todo : UploadCopyFile(r)
    \/ UploadReturn
    \/ \E rel \in ListArgs : GetFolder(rel)
    \/ Switch

Spec == Init /\ [][Next]_vars

\* The document viewer with two upload requests in flight for the same
\* target path.
InitTwoUploads == Init /\ other = OtherRequest

\* A step of the sync call of the upload handler that is running.
SyncStep ==
    \/ RsyncStart
    \/ \E r \in todo : RsyncCopyFile(r)
    \/ RsyncBeginDelete
    \/ \E r \in todo : RsyncDeleteFile(r)
    \/ RsyncBeginPrune
    \/ \E d \in todo : RsyncPruneDir(d)
    \/ RsyncReturn

NextTwoUploads ==
    \/ SyncStep
    \/ Resync
    \/ \E rel \in ListArgs : GetFolder(rel)
    \/ Switch

\* The event loop runs every handler that is ready until it has returned.
TwoUploadsSpec ==
    /\ InitTwoUploads /\ [][NextTwoUploads]_vars
    /\ WF_vars(SyncStep) /\ WF_vars(Switch)

\* ================================================================== claims
Range(q) == {q[i] : i \in 1..Len(q)}

Returned == pc = "done" /\ outcome = "ok"

\* The source files the sync of the current policy takes up.
SourceYield ==
    IF policy = "ReplaceAll" THEN AllFiles(src, <<>>)
    ELSE IF srcReadable THEN WalkFiles(src, <<>>) ELSE {}

\* The Incremental sync gave up in its copy pass (line 369).
Aborted == \E e \in Range(operations.errors) : e[1] = "General error"

\* C1 as stated: for every file present in the source and absent from the
\* target before a sync, after the sync call completes (either policy) the
\* file exists in the target at the same relative path with the source's size
\* (read for a readable source and a call that returns with no error entry).
C1_Original ==
    (srcReadable /\ Returned /\ operations.errors = <<>>) =>
        \A r \in AllFiles(src, <<>>) :
            ~Exists(fs0, target_path \o r) =>
                /\ IsFile(fs, target_path \o r)
                /\ fs[target_path \o r].size = src[r].size

\* C1 (amended): for every source file the sync takes up (Incremental: the
\* files of a readable source that are not excluded and lie beneath no
\* excluded directory; ReplaceAll: every file) whose relative path is
\* unoccupied in the target before the sync, after a sync call that returns
\* successfully with no error entry the file exists in the target at the same
\* relative path with the source file's size.
C1_CopyCorrectness ==
    (Returned /\ operations.errors = <<>>) =>
        \A r \in SourceYield :
            ~Exists(fs0, target_path \o r) =>
                /\ IsFile(fs, target_path \o r)
                /\ fs[target_path \o r].size = src[r].size

C1_Witness ==
    /\ Returned /\ operations.errors = <<>> /\ policy = "Incremental"
    /\ \E r \in SourceYield :
          /\ ~Exists(fs0, target_path \o r)
          /\ IsFile(fs, target_path \o r)
          /\ Len(r) = 2

\* C2 as stated: in an Incremental sync a target file is removed and listed
\* in deleted if and only if it was in the target before the sync and its
\* relative path is absent from the source paths (read for a readable source
\* and a call that returns with no error entry).
C2_Original ==
    (policy = "Incremental" /\ srcReadable /\ Returned
        /\ operations.errors = <<>>) =>
        \A r \in AllFiles(fs0, target_path) :
            (~Exists(fs, target_path \o r) /\ r \in Range(operations.deleted))
                <=> r \notin AllFiles(src, <<>>)

\* C2 (amended): in an Incremental sync that returns a report, every path
\* listed in deleted is absent from the source paths the copy pass collected
\* and no longer exists in the target; and, when errors is empty, every file
\* that was in the target before the sync, that the exclusion-filtered target
\* walk visits (not excluded, beneath no excluded directory) and whose
\* relative path is absent from the collected source paths is removed from
\* the target and listed in deleted.
C2_DeletionExactness ==
    (policy = "Incremental" /\ Returned) =>
        /\ \A r \in Range(operations.deleted) :
              /\ r \notin source_files
              /\ ~Exists(fs, target_path \o r)
        /\ operations.errors = <<>> =>
              \A r \in WalkFiles(fs0, target_path) :
                  r \notin source_files =>
                      /\ r \in Range(operations.deleted)
                      /\ ~Exists(fs, target_path \o r)

C2_Witness ==
    /\ policy = "Incremental" /\ Returned /\ operations.errors = <<>>
    /\ \E r \in WalkFiles(fs0, target_path) :
          r \notin source_files /\ r \in Range(operations.deleted)
    /\ \E r \in WalkFiles(fs0, target_path) :
          r \in source_files /\ Exists(fs, target_path \o r)

\* C3: when Incremental sync is run twice in succession on the same target
\* with an unchanged source, the second run returns an empty copied list and
\* an empty deleted list (read for a first run that reported no error and
\* copied every source file it took up).
C3_Idempotence ==
    (policy = "Incremental" /\ run = 2 /\ Returned /\ prevOps.errors = <<>>
        /\ Range(prevOps.copied) = SourceYield) =>
        operations.copied = <<>> /\ operations.deleted = <<>>

\* C4: a sync called with the empty string as target path never deletes the
\* document root; under ReplaceAll the recursive delete is skipped and only
\* the copy step is applied to the root (nothing that was there is removed).
C4_RootProtectedEmptyArg ==
    arg = <<>> =>
        /\ IsDir(fs, DOCS_ROOT)
        /\ ~rmtreeRan
        /\ policy = "ReplaceAll" =>
              \A q \in DOMAIN fs0 : Exists(fs, q) /\ fs[q].kind = fs0[q].kind

C4_Witness ==
    /\ arg = <<>> /\ policy = "ReplaceAll" /\ Returned
    /\ Below(fs0, DOCS_ROOT) # {}
    /\ \E r \in AllFiles(src, <<>>) :
          ~Exists(fs0, DOCS_ROOT \o r) /\ IsFile(fs, DOCS_ROOT \o r)

\* C5: under ReplaceAll, for every target path argument, the recursive delete
\* is performed only when the resolved target path is not the document root;
\* the document root is never deleted (read for a readable source).
C5_RootProtectedResolved ==
    (policy = "ReplaceAll" /\ srcReadable) =>
        /\ rmtreeRan => target_path # DOCS_ROOT
        /\ IsDir(fs, DOCS_ROOT)

OutsideRoot(f) == {q \in DOMAIN f : ~IsPrefix(DOCS_ROOT, q)}

\* C6: when the target path argument resolves outside the document root, the
\* sync call (either policy) fails and creates, copies or deletes nothing
\* outside the document root (read for a readable source).
C6_Containment ==
    (~IsPrefix(DOCS_ROOT, target_path) /\ srcReadable) =>
        /\ OutsideRoot(fs) = OutsideRoot(fs0)
        /\ \A q \in OutsideRoot(fs) : fs[q] = fs0[q]
        /\ pc = "done" => outcome = "raised"

ExcludedPath(r) ==
    \/ IsExcludedFile(Last(r))
    \/ \E n \in 1..(Len(r) - 1) : IsExcludedFolder(r[n])

\* C7: a file whose name matches a file exclusion pattern, or that lies
\* beneath a directory whose name matches a directory exclusion pattern, is
\* never copied from source to target by a sync (either policy); no excluded
\* name appears in copied or deleted, nor in the folders or files of a listing
\* (read for behaviours in which no I/O call fails).
C7_Exclusion ==
    faults = 0 =>
    /\ \A r \in AllFiles(src, <<>>) :
          (ExcludedPath(r) /\ IsFile(fs, target_path \o r)) =>
              /\ Exists(fs0, target_path \o r)
              /\ fs[target_path \o r] = fs0[target_path \o r]
    /\ \A r \in Range(operations.copied) \cup Range(operations.deleted) :
          ~ExcludedPath(r)
    /\ \A n \in Range(listing.files) : ~IsExcludedFile(n)
    /\ \A n \in Range(listing.folders) : ~IsExcludedFolder(n)

\* C8: in an Incremental sync a failure while bringing one source file into
\* the target appends one entry to errors and does not stop the processing
\* of the remaining source files nor of the delete items: when the report is
\* returned every source file has been taken up and every file of the target
\* walk that is absent from the source is deleted or has its own error entry.
C8_ErrorIsolation ==
    (policy = "Incremental" /\ srcReadable /\ Returned) =>
        /\ source_files = WalkFiles(src, <<>>)
        /\ \A r \in WalkFiles(fs, target_path) :
              \/ r \in source_files
              \/ ErrorEntry("Failed to delete", r) \in Range(operations.errors)

\* C9: when the source directory cannot be read at its top level the
\* Incremental sync call fails outright and deletes no target file (read for
\* a target inside the document root).
C9_UnreadableSourceFails ==
    (policy = "Incremental" /\ ~srcReadable
        /\ IsPrefix(DOCS_ROOT, target_path)) =>
        /\ pc = "done" => outcome = "raised"
        /\ operations.deleted = <<>>
        /\ \A q \in DOMAIN fs0 : Exists(fs, q)

NoOrphan(f) == \A q \in DOMAIN f : q # <<>> => IsDir(f, Parent(q))

BecameEmpty(d) ==
    /\ IsDir(fs0, d) /\ Children(fs0, d) # {}
    /\ IsDir(fs, d) => Children(fs, d) = {}

\* C10 as stated: after an Incremental sync every target directory that
\* became empty because of this sync's deletions has been removed (cascading
\* to parents), every directory that still contains an entry is retained, and
\* the target directory itself is never removed by the prune pass.
C10_Original ==
    (policy = "Incremental" /\ srcReadable /\ Returned /\ ~Aborted) =>
        /\ \A d \in Below(fs0, target_path) : BecameEmpty(d) => ~Exists(fs, d)
        /\ NoOrphan(fs)
        /\ IsDir(fs, target_path)

\* C10 (amended): after an Incremental sync whose prune pass ran, every
\* target directory that became empty because of this sync's deletions has
\* been removed (cascading to parents) unless its os.rmdir failed, which is
\* ignored; every directory that still contains an entry is retained; the
\* target directory itself is never removed by the prune pass.
C10_EmptyPruning ==
    (policy = "Incremental" /\ Returned /\ ~Aborted) =>
        /\ \A d \in Below(fs0, target_path) :
              BecameEmpty(d) =>
                  ~Exists(fs, d) \/ d \in rmdirFailed
        /\ NoOrphan(fs)
        /\ IsDir(fs, target_path)

C10_Witness ==
    /\ policy = "Incremental" /\ Returned /\ ~Aborted
    /\ operations.deleted # <<>>
    /\ \E d \in Below(fs0, target_path) :
          /\ BecameEmpty(d) /\ ~Exists(fs, d)
          /\ BecameEmpty(Parent(d)) /\ ~Exists(fs, Parent(d))
          /\ Parent(d) # target_path
    /\ \E d \in Below(fs, target_path) : IsDir(fs, d) /\ Children(fs, d) # {}

\* The folder holds nothing after exclusion, at any depth.
RECURSIVE EmptyAfterExclusion(_, _)
EmptyAfterExclusion(f, p) ==
    \A q \in Children(f, p) :
        IF f[q].kind = "file" THEN IsExcludedFile(Last(q))
        ELSE IsExcludedFolder(Last(q)) \/ EmptyAfterExclusion(f, q)

\* C11: the folder listing of a directory includes a subfolder only if it is
\* not excluded and is not empty after exclusion, where emptiness is
\* recursive (a subfolder holding only excluded entries, or only
\* subdirectories that are themselves empty after exclusion, is not listed).
C11_ListingHidesEmpty ==
    (pc = "listed" /\ listing.status = 200) =>
        \A n \in Range(listing.folders) :
            /\ ~IsExcludedFolder(n)
            /\ ~EmptyAfterExclusion(fs, Append(listing.path, n))

\* The entries of the target tree at or beneath a directory whose name
\* matches a directory exclusion pattern.
UnderExcludedDir(f) ==
    {q \in Below(f, target_path) :
        \E n \in (Len(target_path) + 1)..Len(q) :
            IsExcludedFolder(q[n]) /\ IsDir(f, SubSeq(q, 1, n))}

\* C12: during an Incremental sync no pass descends into a target directory
\* whose name matches a directory exclusion pattern: every file and every
\* subdirectory beneath an excluded target directory, and the excluded
\* directory itself, exists unchanged after the sync.
C12_ExcludedTargetUntouched ==
    policy = "Incremental" =>
        \A q \in UnderExcludedDir(fs0) : Exists(fs, q) /\ fs[q] = fs0[q]

\* The rule of the copy decision for source file r against the target.
CopyRule(r) ==
    LET tfp == target_path \o r
    IN \/ ~Exists(fs, tfp)
       \/ src[r].size # fs[tfp].size
       \/ src[r].mtime > fs[tfp].mtime

\* The step takes up source file r and the copy pass goes on.
CopyStepOf(r) ==
    /\ pc = "copy" /\ pc' = "copy"
    /\ r \notin source_files /\ r \in source_files'

\* The step called shutil.copy2 for r (it succeeded or failed).
CopyAttempted(r) ==
    \/ operations'.copied = Append(operations.copied, r)
    \/ operations'.errors =
          Append(operations.errors, ErrorEntry("Failed to copy", r))

\* C13: in the Incremental copy pass a source file is copied exactly when its
\* target path does not exist, or the sizes differ, or the source's
\* modification time is strictly greater than the target's; when the target
\* exists with equal size and a modification time equal to or newer than the
\* source's, the file is not copied, does not appear in copied, and the
\* target file is left unchanged (the target path holds a file or nothing).
C13_CopyDecision ==
    [][\A r \in DOMAIN src :
          (CopyStepOf(r) /\ ~IsDir(fs, target_path \o r)) =>
              /\ CopyAttempted(r) <=> CopyRule(r)
              /\ ~CopyRule(r) =>
                    /\ operations' = operations
                    /\ fs'[target_path \o r] = fs[target_path \o r]]_vars

C13_Witness ==
    /\ policy = "Incremental" /\ Returned /\ operations.errors = <<>>
    /\ \E r \in source_files :
          /\ IsFile(fs0, target_path \o r)
          /\ fs0[target_path \o r].size = src[r].size
          /\ fs0[target_path \o r].mtime = src[r].mtime
          /\ r \notin Range(operations.copied)
          /\ fs[target_path \o r] = fs0[target_path \o r]
    /\ \E r \in source_files :
          /\ IsFile(fs0, target_path \o r)
          /\ fs0[target_path \o r].size # src[r].size
          /\ r \in Range(operations.copied)

\* The step removes a file of the target tree.
FileRemoved ==
    \E q \in DOMAIN fs : IsFile(fs, q) /\ ~Exists(fs', q)

\* The step removes a directory of the target tree.
DirRemoved ==
    \E q \in DOMAIN fs : IsDir(fs, q) /\ ~Exists(fs', q)

\* The target walk of the delete pass has nothing left to do: every file it
\* visits is a source path or has failed to delete.
DeletePassComplete ==
    \A r \in WalkFiles(fs, target_path) :
        \/ r \in source_files
        \/ ErrorEntry("Failed to delete", r) \in Range(operations.errors)

\* The report is handed to the caller by this step.
ReportReturned == pc # "done" /\ pc' = "done" /\ outcome' = "ok"

\* C14: in every Incremental sync call that returns a report, no deletion
\* happens before the copy pass has enumerated all source files, no directory
\* is pruned before the delete pass has finished, and both the delete pass
\* and the prune pass have run to full completion before the report is
\* returned (read for a readable source).
C14_PassOrdering ==
    [][(policy = "Incremental" /\ srcReadable) =>
          /\ FileRemoved =>
                pc = "delete" /\ source_files = WalkFiles(src, <<>>)
          /\ DirRemoved => pc = "prune" /\ DeletePassComplete
          /\ ReportReturned =>
                /\ pc = "prune" /\ todo = {}
                /\ source_files = WalkFiles(src, <<>>)
                /\ DeletePassComplete]_vars

\* The handler is inside rsync_directory.
InSync(p) == p \in {"copy", "delete", "prune"}

\* The paths the running call's delete pass removed that the other call had
\* copied.
DeletedOfOther ==
    Range(operations.deleted) \cap Range(other.operations.copied)

\* The delete pass of one call has removed a file that the other call copied
\* while that other call is still inside its sync.
RaceState == InSync(other.pc) /\ DeletedOfOther # {}

C16_Convergence ==
    (policy = "Incremental" /\ srcReadable /\ Returned
        /\ operations.errors = <<>>
        /\ \A r \in source_files :
              IsDir(fs0, target_path \o r) => r \in Range(operations.copied)) =>
        /\ WalkFiles(fs, target_path) = WalkFiles(src, <<>>)
        /\ \A r \in Range(operations.copied) :
              /\ IsFile(fs, target_path \o r)
              /\ fs[target_path \o r].size = src[r].size

====
